---- MODULE Spec2Model ----
(***************************************************************************)
(* Invoice-processing pipeline (services/pipeline_service.py) with its     *)
(* validator (services/data_validator.py), LLM extraction wrapper          *)
(* (Chain.py) and persistence (services/invoice_service.py).               *)
(*                                                                         *)
(* Python values are tagged records [t |-> tag, v |-> payload]:            *)
(*   none, num (amounts in hundredths), str (sequence of one-character     *)
(*   strings), dict (function from keys), list (sequence), dt (datetime).  *)
(* A message (warning, error, exception text) is tagged msg, with its     *)
(* text m and its arguments p.                                             *)
(* A Decimal or float that is no finite number is tagged nan, inf or snan.  *)
(*                                                                         *)
(* Specifications: Spec (one pipeline run at a time and the other          *)
(* operations), ThreadsSpec (two interleaved runs), FunctionsSpec (the     *)
(* parsing and validation functions on bounded inputs), SessionsSpec       *)
(* (request handlers and their database sessions, with fairness).          *)
(***************************************************************************)
EXTENDS Integers, Sequences, FiniteSets, TLC

VARIABLES
    store,      \* object store: bucket -> (object name -> content)
    tempFiles,  \* paths under /tmp that exist
    db,         \* rows of the invoices table, in insertion order
    pc,         \* position of the pipeline run in process_invoice_pipeline
    inv,        \* arguments of the run: invoice_id, filename
    result,     \* pipeline_result of the run
    loc,        \* local variables of the run
    trace,      \* stages whose collaborator the run has called, in order
    thrown,     \* the exception raised inside the run's try block, if any
    written,    \* per invoice: runs started, cleaned artifacts stored, the last one
    calls,      \* number of calls made to the OCR and LLM collaborators
    nruns,      \* pipeline runs started
    faults,     \* collaborator failures so far
    ret,        \* what the last request handler returned
    parked,     \* frame of a second pipeline run, while the first one executes
    applied,    \* the last application of a parsing or validation function
    handlers    \* per web worker: the request it serves and the sessions it holds

\* the frame of a pipeline run
frame == <<pc, inv, result, loc, trace, thrown>>

vars == <<store, tempFiles, db, pc, inv, result, loc, trace, thrown, written, calls,
          nruns, faults, ret, parked, applied, handlers>>

\* the state of the pipeline and its request handlers
pipeline == <<store, tempFiles, db, pc, inv, result, loc, trace, thrown, written,
              calls, nruns, faults, ret, parked>>

------------------------------------------------------------------------------
(* Bounds                                                                   *)

MaxRuns == 2
MaxFaults == 1
MaxHandlers == 2
MaxRequests == 2

------------------------------------------------------------------------------
(* Python values                                                            *)

None == [t |-> "none"]
Num(n) == [t |-> "num", v |-> n]
Str(s) == [t |-> "str", v |-> s]
Dict(f) == [t |-> "dict", v |-> f]
List(s) == [t |-> "list", v |-> s]
EmptyStr == Str(<<>>)
EmptyDict == Dict(<<>>)

Msg(text, args) == [t |-> "msg", m |-> text, p |-> args]

\* bool(value)
Truthy(x) ==
    CASE x.t = "none" -> FALSE
      [] x.t = "num"  -> x.v # 0
      [] x.t = "str"  -> Len(x.v) > 0
      [] x.t = "list" -> Len(x.v) > 0
      [] x.t = "dict" -> DOMAIN x.v # {}
      [] OTHER        -> TRUE

\* d.get(k, default) on a dict value
Get(d, k, default) == IF k \in DOMAIN d.v THEN d.v[k] ELSE default

\* a or b
Or(a, b) == IF Truthy(a) THEN a ELSE b

\* {**d, k: x}
With(f, k, x) == [y \in DOMAIN f \cup {k} |-> IF y = k THEN x ELSE f[y]]

\* d.update(e)
Update(f, g) == [y \in DOMAIN f \cup DOMAIN g |-> IF y \in DOMAIN g THEN g[y] ELSE f[y]]

------------------------------------------------------------------------------
(* Object names and the object store                                        *)

Ids == {1, 12}
Filename == "a.png"

RECURSIVE Digits(_)
\* str(n) for n >= 0, one character per element
Digits(n) ==
    LET d == <<"0", "1", "2", "3", "4", "5", "6", "7", "8", "9">>
    IN  IF n < 10 THEN <<d[n + 1]>> ELSE Digits(n \div 10) \o <<d[(n % 10) + 1]>>

\* f"invoice_{invoice_id}"
NamePrefix(id) == <<"invoice_">> \o Digits(id)

\* f"invoice_{invoice_id}_{stage}.{ext}"
ObjectName(id, suffix) == NamePrefix(id) \o <<"_", suffix>>

StartsWith(s, p) == Len(p) <= Len(s) /\ SubSeq(s, 1, Len(p)) = p

Buckets == {"raw_invoices", "ocr_output", "llm_output", "cleaned_invoices"}

\* object name written by the upload_* method of each bucket
StageObject(bucket, id, filename) ==
    CASE bucket = "raw_invoices"     -> ObjectName(id, filename)
      [] bucket = "ocr_output"       -> ObjectName(id, "ocr.txt")
      [] bucket = "llm_output"       -> ObjectName(id, "llm.json")
      [] bucket = "cleaned_invoices" -> ObjectName(id, "cleaned.json")

\* put: overwrite of the object of that name
PutObject(st, bucket, name, content) ==
    [st EXCEPT ![bucket] = With(@, name, content)]

\* get_object: the bytes, or None when the object is absent
GetObject(st, bucket, name) ==
    IF name \in DOMAIN st[bucket] THEN st[bucket][name] ELSE None

\* list_objects: the names in the bucket that start with the prefix
ListObjects(st, bucket, prefix) ==
    {n \in DOMAIN st[bucket] : StartsWith(n, prefix)}

------------------------------------------------------------------------------
(* JSON text                                                                *)

\* json.dumps(value): the document encoding the value
JsonDumps(x) == [t |-> "json", v |-> x]

IsDigit(c) == c \in {"0", "1", "2", "3", "4", "5", "6", "7", "8", "9"}

RECURSIVE NatOf(_)
NatOf(s) ==
    IF s = <<>> THEN 0
    ELSE NatOf(SubSeq(s, 1, Len(s) - 1)) * 10
         + (CHOOSE k \in 0..9 : Digits(k) = <<s[Len(s)]>>)

\* json.loads(text): [ok, value]; ok = FALSE is JSONDecodeError.
\* Text is a JSON document, or plain characters, which parse only as an
\* integer literal.
JsonLoads(x) ==
    CASE x.t = "json" -> [ok |-> TRUE, value |-> x.v]
      [] x.t = "str" /\ Len(x.v) > 0 /\ (\A i \in 1..Len(x.v) : IsDigit(x.v[i])) ->
            [ok |-> TRUE, value |-> Num(NatOf(x.v) * 100)]
      [] OTHER -> [ok |-> FALSE, value |-> None]

------------------------------------------------------------------------------
(* Strings (sequences of one-character strings)                             *)

IsSpace(c) == c \in {" ", "\t", "\n"}

RECURSIVE LStrip(_)
LStrip(s) == IF s # <<>> /\ IsSpace(Head(s)) THEN LStrip(Tail(s)) ELSE s

RECURSIVE RStrip(_)
RStrip(s) ==
    IF s # <<>> /\ IsSpace(s[Len(s)]) THEN RStrip(SubSeq(s, 1, Len(s) - 1)) ELSE s

\* s.strip()
Strip(s) == RStrip(LStrip(s))

\* ' '.join(s.split()) for s without leading or trailing whitespace: each
\* run of whitespace becomes one space
Collapse(s) ==
    SelectSeq([i \in 1..Len(s) |->
                  IF ~IsSpace(s[i]) THEN s[i]
                  ELSE IF i > 1 /\ IsSpace(s[i - 1]) THEN "" ELSE " "],
              LAMBDA c : c # "")

Letters == <<"a", "b", "c", "d", "e", "f", "g", "h", "i", "j", "k", "l", "m",
             "n", "o", "p", "q", "r", "s", "t", "u", "v", "w", "x", "y", "z">>
Capitals == <<"A", "B", "C", "D", "E", "F", "G", "H", "I", "J", "K", "L", "M",
              "N", "O", "P", "Q", "R", "S", "T", "U", "V", "W", "X", "Y", "Z">>

\* s.upper()
Upper(s) ==
    [i \in 1..Len(s) |->
        IF \E k \in 1..26 : Letters[k] = s[i]
        THEN Capitals[CHOOSE k \in 1..26 : Letters[k] = s[i]]
        ELSE s[i]]

\* str(value) of a float held in hundredths, for values without a fraction
\* or with a fraction of one or two digits
FloatStr(n) ==
    LET a == IF n < 0 THEN -n ELSE n
        f == a % 100
        frac == IF f % 10 = 0 THEN Digits(f \div 10)
                ELSE (IF f < 10 THEN <<"0">> ELSE <<>>) \o Digits(f)
    IN  (IF n < 0 THEN <<"-">> ELSE <<>>) \o Digits(a \div 100) \o <<".">> \o frac

\* _clean_string
CleanString(value) ==
    IF ~Truthy(value) THEN None
    ELSE IF value.t = "str"
         THEN LET cleaned == Collapse(Strip(value.v))
              IN  IF cleaned # <<>> THEN Str(cleaned) ELSE None
         ELSE IF value.t = "num" THEN Str(FloatStr(value.v))
         ELSE Str(<<"<repr>">>)

------------------------------------------------------------------------------
(* InvoiceDataValidator: normalisation                                      *)

\* _normalize_llm_output
NormalizeLlmOutput(data) ==
    LET nested == "supplier" \in DOMAIN data.v /\ data.v["supplier"].t = "dict"
        supplier == IF nested THEN data.v["supplier"] ELSE EmptyDict
        sup(k, flat) == IF nested THEN Get(supplier, k, EmptyStr)
                        ELSE Get(data, flat, EmptyStr)
    IN  Dict([k \in {"supplier_name", "supplier_address", "supplier_email",
                     "supplier_phone_number", "supplier_vat_number",
                     "supplier_website", "expense_date", "invoice_number",
                     "currency", "total_net", "total_tax", "total_amount"} |->
            CASE k = "supplier_name"         -> sup("name", "supplier_name")
              [] k = "supplier_address"      -> sup("address", "supplier_address")
              [] k = "supplier_email"        -> sup("email", "supplier_email")
              [] k = "supplier_phone_number" -> sup("phone_number", "supplier_phone_number")
              [] k = "supplier_vat_number"   -> sup("vat_number", "supplier_vat_number")
              [] k = "supplier_website"      -> sup("website", "supplier_website")
              [] k = "expense_date" ->
                    Or(Get(data, "expense_date", None),
                       Or(Get(data, "invoice_date", None),
                          Or(Get(data, "date", None), EmptyStr)))
              [] k = "invoice_number" -> Get(data, "invoice_number", EmptyStr)
              [] k = "currency"       -> Get(data, "currency", EmptyStr)
              [] k = "total_net" ->
                    Or(Get(data, "total_net", None),
                       Or(Get(data, "subtotal", None),
                          Or(Get(data, "net_amount", None), None)))
              [] k = "total_tax" ->
                    Or(Get(data, "total_tax", None),
                       Or(Get(data, "tax_amount", None),
                          Or(Get(data, "vat_amount", None), None)))
              [] k = "total_amount" ->
                    Or(Get(data, "total_amount", None),
                       Or(Get(data, "total_amount_incl_tax", None),
                          Or(Get(data, "grand_total", None),
                             Or(Get(data, "amount_due", None), None))))])

------------------------------------------------------------------------------
(* InvoiceDataValidator: field checks.  Each check returns                  *)
(* [data |-> its result dict, w |-> the warnings it appended].              *)

MaxNameLen == 255
MaxCurrencyLen == 10
MaxInvoiceNumberLen == 100

\* a slice that keeps the whole string
Whole(s, n) == s

\* s[:n]
Prefix(s, n) == SubSeq(s, 1, IF Len(s) < n THEN Len(s) ELSE n)

\* the entries whose value is present
Present(f) == [k \in {x \in DOMAIN f : f[x].t # "none"} |-> f[k]]

\* _validate_supplier_info
ValidateSupplierInfo(data) ==
    LET name == CleanString(Get(data, "supplier_name", None))
        hasName == name.t = "str" /\ Strip(name.v) # <<>>
        vat == CleanString(Get(data, "supplier_vat_number", None))
        address == CleanString(Get(data, "supplier_address", None))
        website == CleanString(Get(data, "supplier_website", None))
        kept(x) == IF x.t = "str" /\ Strip(x.v) # <<>> THEN x ELSE None
        hasScheme(u) == StartsWith(u, <<"h", "t", "t", "p", ":", "/", "/">>)
                        \/ StartsWith(u, <<"h", "t", "t", "p", "s", ":", "/", "/">>)
    IN  [data |-> Present([k \in {"supplier_name", "supplier_vat_number",
                                  "supplier_address", "supplier_website"} |->
                    CASE k = "supplier_name" ->
                            IF hasName THEN Str(Prefix(name.v, MaxNameLen)) ELSE None
                      [] k = "supplier_vat_number" -> kept(vat)
                      [] k = "supplier_address" -> kept(address)
                      [] k = "supplier_website" ->
                            IF kept(website).t = "none" THEN None
                            ELSE IF hasScheme(website.v) THEN website
                            ELSE Str(<<"h", "t", "t", "p", "s", ":", "/", "/">> \o website.v)]),
         w |-> IF hasName
               THEN (IF Len(name.v) > MaxNameLen
                     THEN <<Msg("Supplier name truncated to 255 characters", <<>>)>>
                     ELSE <<>>)
               ELSE <<Msg("Supplier name is missing or empty", <<>>)>>]

\* the characters of s that are not in the set drop
Without(s, drop) == SelectSeq(s, LAMBDA c : c \notin drop)

\* float values that are not finite numbers
NaN == [t |-> "nan"]
Inf(sign) == [t |-> "inf", v |-> sign]

\* Decimal('sNaN'): a signaling NaN, which float() refuses to convert
SNaN == [t |-> "snan"]

\* the special values Decimal(text) and float(text) accept in any case
SpecialWords ==
    [k \in {"nan", "inf"} |->
        IF k = "nan" THEN {<<"N", "A", "N">>}
        ELSE {<<"I", "N", "F">>, <<"I", "N", "F", "I", "N", "I", "T", "Y">>}]

\* Decimal(text) for text over digits, ".", signs and letters: [sign] digits
\* [. digits] with a fraction of at most two digits (amounts are held in
\* hundredths), or [sign] NaN | sNaN | Inf | Infinity in any case; None is
\* InvalidOperation
ParseDecimal(s) ==
    LET signed == s # <<>> /\ Head(s) \in {"+", "-"}
        sign == IF signed /\ Head(s) = "-" THEN -1 ELSE 1
        body == IF signed THEN Tail(s) ELSE s
        dots == {i \in 1..Len(body) : body[i] = "."}
        dot == IF dots = {} THEN Len(body) + 1 ELSE CHOOSE i \in dots : TRUE
        whole == SubSeq(body, 1, dot - 1)
        frac == SubSeq(body, dot + 1, Len(body))
        wellFormed == /\ Cardinality(dots) <= 1
                      /\ \A i \in 1..Len(whole) : IsDigit(whole[i])
                      /\ \A i \in 1..Len(frac) : IsDigit(frac[i])
                      /\ Len(whole) + Len(frac) > 0
                      /\ Len(frac) <= 2
        mag == NatOf(whole) * 100
               + (IF Len(frac) = 1 THEN NatOf(frac) * 10 ELSE NatOf(frac))
    IN  IF wellFormed THEN Num(sign * mag)
        ELSE IF Upper(body) \in SpecialWords["nan"] THEN NaN
        ELSE IF Upper(body) = <<"S">> \o <<"N", "A", "N">> THEN SNaN
        ELSE IF Upper(body) \in SpecialWords["inf"] THEN Inf(sign)
        ELSE None

CurrencySymbols == {"€", "$", "£", "¥", "₹"}

\* a character class that knows the dollar sign only
DollarOnly == {"$", ",", " ", "\t", "\n"}

\* the characters re.sub(r'[€$£¥₹,\s]', '', ...) removes
Removed == CurrencySymbols \cup {",", " ", "\t", "\n"}

\* _validate_amount: the Decimal, None when there is none.  A float or int
\* goes through Decimal(str(value))
ValidateAmount(value) ==
    CASE value.t = "none" -> None
      [] value.t \in {"num", "nan", "inf"} -> value
      [] value.t = "str"  -> ParseDecimal(Without(Strip(value.v), Removed))
      [] OTHER -> None

AmountFields == <<"total_net", "total_tax", "total_amount">>

\* float(amount) of a Decimal raises ValueError for a signaling NaN
FloatRaises(amount) == amount.t = "snan"

\* _validate_financial_data; exc is the exception float(amount) raises at
\* the first amount that is a signaling NaN, None when it returns; w is the
\* warnings appended until then
ValidateFinancialData(data) ==
    LET currency == CleanString(Get(data, "currency", None))
        amount(k) == ValidateAmount(Get(data, k, None))
        reached(k) == \A j \in 1..3 :
                          FloatRaises(amount(AmountFields[j]))
                              => \E i \in 1..j : AmountFields[i] = k
        invalid(k) == IF amount(k).t = "none" /\ Truthy(Get(data, k, None))
                         /\ reached(k)
                      THEN <<Msg("Invalid " \o k, <<Get(data, k, None)>>)>>
                      ELSE <<>>
    IN  [data |-> Present([k \in {"currency", "total_net", "total_tax", "total_amount"} |->
                    IF k = "currency"
                    THEN (IF Truthy(currency)
                          THEN Str(Prefix(Upper(currency.v), MaxCurrencyLen))
                          ELSE None)
                    ELSE amount(k)]),
         w |-> (IF Truthy(currency) /\ Len(currency.v) > MaxCurrencyLen
                THEN <<Msg("Currency code truncated", <<>>)>> ELSE <<>>)
               \o invalid(AmountFields[1]) \o invalid(AmountFields[2])
               \o invalid(AmountFields[3]),
         exc |-> IF \E i \in 1..3 : FloatRaises(amount(AmountFields[i]))
                 THEN Msg("cannot convert signaling NaN to float", <<>>)
                 ELSE None]

\* abs(x)
Abs(x) == IF x < 0 THEN -x ELSE x

\* a + b on floats
FAdd(a, b) ==
    CASE a.t = "nan" \/ b.t = "nan" -> NaN
      [] a.t = "inf" /\ b.t = "inf" -> IF a.v = b.v THEN a ELSE NaN
      [] a.t = "inf" -> a
      [] b.t = "inf" -> b
      [] OTHER -> Num(a.v + b.v)

\* -a on floats
FNeg(a) == IF a.t = "nan" THEN a ELSE [a EXCEPT !.v = -@]

\* abs(a) on floats
FAbs(a) ==
    CASE a.t = "nan" -> a
      [] a.t = "inf" -> Inf(1)
      [] OTHER -> Num(Abs(a.v))

\* a > n on floats, n in hundredths: False for NaN
FGreater(a, n) ==
    CASE a.t = "nan" -> FALSE
      [] a.t = "inf" -> a.v > 0
      [] OTHER -> a.v > n

\* a < 0 on floats
FNegative(a) ==
    CASE a.t = "nan" -> FALSE
      [] a.t = "inf" -> a.v < 0
      [] OTHER -> a.v < 0

\* rounding tolerance of the cross-check (0.02), in hundredths
Tolerance == 2

\* _cross_validate_amounts: the warnings it appends
CrossValidateAmounts(cleaned) ==
    LET net == Get(Dict(cleaned), "total_net", None)
        tax == Get(Dict(cleaned), "total_tax", None)
        total == Get(Dict(cleaned), "total_amount", None)
        calculated == FAdd(net, tax)
        difference == FAbs(FAdd(calculated, FNeg(total)))
        negative(k) ==
            LET amount == Get(Dict(cleaned), k, None)
            IN  IF amount.t # "none" /\ FNegative(amount)
                THEN <<Msg("Negative amount detected in " \o k, <<amount>>)>>
                ELSE <<>>
    IN  (IF net.t # "none" /\ tax.t # "none" /\ total.t # "none"
            /\ FGreater(difference, Tolerance)
         THEN <<Msg("Amount calculation mismatch",
                    <<net, tax, calculated, total, difference>>)>>
         ELSE <<>>)
        \o negative(AmountFields[1]) \o negative(AmountFields[2])
        \o negative(AmountFields[3])

------------------------------------------------------------------------------
(* Dates                                                                    *)

Date(y, m, d) == [t |-> "dt", v |-> <<y, m, d>>]

RECURSIVE Split(_, _)
\* s.split(sep) for a one-character separator
Split(s, sep) ==
    LET hits == {i \in 1..Len(s) : s[i] = sep}
    IN  IF hits = {} THEN <<s>>
        ELSE LET i == CHOOSE j \in hits : \A k \in hits : j <= k
             IN  <<SubSeq(s, 1, i - 1)>> \o Split(SubSeq(s, i + 1, Len(s)), sep)

AllDigits(s) == \A i \in 1..Len(s) : IsDigit(s[i])

\* %Y: four digits; -1 when the field does not match
YearField(s) == IF Len(s) = 4 /\ AllDigits(s) THEN NatOf(s) ELSE -1

\* %m: 1..12, a leading zero allowed; -1 when the field does not match
MonthField(s) ==
    IF Len(s) \in {1, 2} /\ AllDigits(s) /\ NatOf(s) \in 1..12 THEN NatOf(s) ELSE -1

\* %d: 1..31, a leading zero or a leading space allowed; -1 when no match
DayField(s) ==
    IF Len(s) \in {1, 2} /\ AllDigits(s) /\ NatOf(s) \in 1..31 THEN NatOf(s)
    ELSE IF Len(s) = 2 /\ s[1] = " " /\ IsDigit(s[2]) /\ s[2] # "0" THEN NatOf(Tail(s))
    ELSE -1

MonthNames ==
    <<"JANUARY", "FEBRUARY", "MARCH", "APRIL", "MAY", "JUNE", "JULY", "AUGUST",
      "SEPTEMBER", "OCTOBER", "NOVEMBER", "DECEMBER">>

RECURSIVE Join(_)
\* the characters of an upper-cased word as one string
Join(s) == IF s = <<>> THEN "" ELSE Head(s) \o Join(Tail(s))

\* %B: a full month name in any case; -1 when the field does not match
MonthNameField(s) ==
    LET hits == {k \in 1..12 : MonthNames[k] = Join(Upper(s))}
    IN  IF hits = {} THEN -1 ELSE CHOOSE k \in hits : TRUE

IsLeap(y) == (y % 4 = 0 /\ y % 100 # 0) \/ y % 400 = 0

DaysInMonth(y, m) ==
    IF m = 2 THEN (IF IsLeap(y) THEN 29 ELSE 28)
    ELSE IF m \in {4, 6, 9, 11} THEN 30 ELSE 31

\* datetime(y, m, d), None when the regex did not match or ValueError
MakeDate(y, m, d) ==
    IF y >= 1 /\ m >= 1 /\ d >= 1 /\ d <= DaysInMonth(y, m) THEN Date(y, m, d) ELSE None

\* datetime.strptime(text, fmt) for the fmt-th format of the list,
\* None for ValueError
Strptime(text, fmt) ==
    LET f(sep) == Split(text, sep)
        three(sep) == Len(f(sep)) = 3
        words == Split(Collapse(text), " ")
        last(w) == w[Len(w)]
        init(w) == SubSeq(w, 1, Len(w) - 1)
    IN  CASE fmt = 1 /\ three("-") ->
                MakeDate(YearField(f("-")[1]), MonthField(f("-")[2]), DayField(f("-")[3]))
          [] fmt = 2 /\ three("/") ->
                MakeDate(YearField(f("/")[3]), MonthField(f("/")[2]), DayField(f("/")[1]))
          [] fmt = 3 /\ three("/") ->
                MakeDate(YearField(f("/")[3]), MonthField(f("/")[1]), DayField(f("/")[2]))
          [] fmt = 4 /\ three("-") ->
                MakeDate(YearField(f("-")[3]), MonthField(f("-")[2]), DayField(f("-")[1]))
          [] fmt = 5 /\ three("/") ->
                MakeDate(YearField(f("/")[1]), MonthField(f("/")[2]), DayField(f("/")[3]))
          [] fmt = 6 /\ Len(words) = 3 /\ words[2] # <<>> /\ last(words[2]) = "," ->
                MakeDate(YearField(words[3]), MonthNameField(words[1]),
                         DayField(init(words[2])))
          [] fmt = 7 /\ Len(words) = 3 ->
                MakeDate(YearField(words[3]), MonthNameField(words[2]), DayField(words[1]))
          [] fmt = 8 /\ three(".") ->
                MakeDate(YearField(f(".")[3]), MonthField(f(".")[2]), DayField(f(".")[1]))
          [] OTHER -> None

\* str(value)
PyStr(value) ==
    CASE value.t = "str" -> value.v
      [] value.t = "num" -> FloatStr(value.v)
      [] OTHER -> <<"<repr>">>

RECURSIVE TryFormats(_, _, _)
\* the loop over the format list: the first format that parses wins
TryFormats(text, fmt, n) ==
    IF fmt > n THEN None
    ELSE IF Strptime(text, fmt).t = "dt" THEN Strptime(text, fmt)
    ELSE TryFormats(text, fmt + 1, n)

\* number of entries of the validator's format list
ValidatorFormats == 8

\* InvoiceDataValidator._parse_date
ParseDate(value) ==
    IF ~Truthy(value) THEN None
    ELSE IF value.t = "dt" THEN value
    ELSE TryFormats(Strip(PyStr(value)), 1, ValidatorFormats)

\* days from 0001-01-01 to the date (date.toordinal)
Ordinal(date) ==
    LET y == date.v[1] - 1
    IN  y * 365 + (y \div 4) - (y \div 100) + (y \div 400)
        + Cardinality({<<m, d>> \in (1..12) \X (1..31) :
                          /\ m < date.v[2]
                          /\ d <= DaysInMonth(date.v[1], m)})
        + date.v[3]

\* datetime.now(): the day on which the model's validations take place
Now == Date(2025, 6, 15)

\* a date is unusual when abs((now - date).days / 365.25) > 10
UnusualDays == 3652

\* _validate_dates
ValidateDates(data) ==
    LET expense == Get(data, "expense_date", None)
        parsed == ParseDate(expense)
    IN  IF ~Truthy(expense) THEN [data |-> <<>>, w |-> <<>>]
        ELSE IF parsed.t # "dt"
        THEN [data |-> <<>>, w |-> <<Msg("Invalid expense date format", <<expense>>)>>]
        ELSE [data |-> [k \in {"expense_date"} |-> parsed],
              w |-> IF Abs(Ordinal(Now) - Ordinal(parsed)) > UnusualDays
                    THEN <<Msg("Expense date seems unusual", <<parsed>>)>>
                    ELSE <<>>]

------------------------------------------------------------------------------
(* Contact information                                                      *)

IsLetter(c) == \E k \in 1..26 : c = Letters[k] \/ c = Capitals[k]

\* _validate_email: ^[a-zA-Z0-9._%+-]+@[a-zA-Z0-9.-]+\.[a-zA-Z]{2,}$
ValidateEmail(s) ==
    LET parts == Split(s, "@")
        local == parts[1]
        host == parts[2]
    IN  /\ Len(parts) = 2
        /\ local # <<>>
        /\ \A i \in 1..Len(local) :
              IsLetter(local[i]) \/ IsDigit(local[i]) \/ local[i] \in {".", "_", "%", "+", "-"}
        /\ \E j \in 2..Len(host) :
              /\ host[j] = "."
              /\ \A i \in 1..(j - 1) :
                    IsLetter(host[i]) \/ IsDigit(host[i]) \/ host[i] \in {".", "-"}
              /\ Len(host) - j >= 2
              /\ \A i \in (j + 1)..Len(host) : IsLetter(host[i])

MinPhoneDigits == 7
MaxPhoneDigits == 15

\* _validate_phone: the cleaned number, None when the digit count is off
ValidatePhone(s) ==
    LET kept == SelectSeq(s, LAMBDA c : IsDigit(c) \/ c = "+")
        digits == SelectSeq(kept, IsDigit)
        cleaned == IF kept # <<>> /\ Head(kept) = "+" THEN <<"+">> \o digits ELSE digits
    IN  IF MinPhoneDigits <= Len(digits) /\ Len(digits) <= MaxPhoneDigits
        THEN Str(cleaned) ELSE None

\* s.lower()
LowerCase(s) ==
    [i \in 1..Len(s) |->
        IF \E k \in 1..26 : Capitals[k] = s[i]
        THEN Letters[CHOOSE k \in 1..26 : Capitals[k] = s[i]]
        ELSE s[i]]

\* _validate_vat_number: the number without whitespace and in capitals when
\* it is two letters and 8 to 12 letters or digits, or 8 to 12 digits
ValidateVatNumber(vat) ==
    LET cleaned == Without(Upper(vat), {" ", "\t", "\n"})
        n == Len(cleaned)
    IN  IF \/ /\ 10 <= n /\ n <= 14
              /\ IsLetter(cleaned[1]) /\ IsLetter(cleaned[2])
              /\ \A i \in 3..n : IsDigit(cleaned[i]) \/ IsLetter(cleaned[i])
           \/ /\ 8 <= n /\ n <= 12
              /\ \A i \in 1..n : IsDigit(cleaned[i])
        THEN Str(cleaned) ELSE None

\* _validate_website: the URL with a scheme when it matches
\* ^https?://[a-zA-Z0-9.-]+\.[a-zA-Z]{2,}/?.*$
ValidateWebsite(website) ==
    LET http == <<"h", "t", "t", "p", ":", "/", "/">>
        https == <<"h", "t", "t", "p", "s", ":", "/", "/">>
        url == IF StartsWith(website, http) \/ StartsWith(website, https)
               THEN website ELSE https \o website
        rest == SubSeq(url, (IF StartsWith(url, https) THEN Len(https) ELSE Len(http)) + 1,
                       Len(url))
    IN  IF \E j \in 2..(Len(rest) - 2) :
              /\ rest[j] = "."
              /\ \A i \in 1..(j - 1) :
                    IsLetter(rest[i]) \/ IsDigit(rest[i]) \/ rest[i] \in {".", "-"}
              /\ IsLetter(rest[j + 1]) /\ IsLetter(rest[j + 2])
        THEN Str(url) ELSE None

\* _validate_contact_info
ValidateContactInfo(data) ==
    LET email == CleanString(Get(data, "supplier_email", None))
        phone == CleanString(Get(data, "supplier_phone_number", None))
        number == CleanString(Get(data, "invoice_number", None))
        cleanedPhone == IF Truthy(phone) THEN ValidatePhone(phone.v) ELSE None
    IN  [data |-> Present([k \in {"supplier_email", "supplier_phone_number",
                                  "invoice_number"} |->
                    CASE k = "supplier_email" ->
                            IF Truthy(email) /\ ValidateEmail(email.v)
                            THEN Str(LowerCase(email.v)) ELSE None
                      [] k = "supplier_phone_number" ->
                            IF Truthy(cleanedPhone) THEN cleanedPhone ELSE None
                      [] k = "invoice_number" ->
                            IF Truthy(number)
                            THEN Str(Prefix(number.v, MaxInvoiceNumberLen)) ELSE None]),
         w |-> (IF Truthy(email) /\ ~ValidateEmail(email.v)
                THEN <<Msg("Invalid email format", <<email>>)>> ELSE <<>>)
               \o (IF Truthy(phone) /\ ~Truthy(cleanedPhone)
                   THEN <<Msg("Invalid phone format", <<phone>>)>> ELSE <<>>)
               \o (IF Truthy(number) /\ Len(number.v) > MaxInvoiceNumberLen
                   THEN <<Msg("Invoice number truncated", <<>>)>> ELSE <<>>)]

------------------------------------------------------------------------------
(* validate_invoice                                                         *)

\* a validate_invoice that reports its warnings as errors too
ValidatedWithErrors(cleaned, warnings) ==
    [raised |-> FALSE,
     cleaned |-> cleaned,
     errors |-> warnings \o CrossValidateAmounts(cleaned),
     warnings |-> warnings \o CrossValidateAmounts(cleaned)]

\* the end of validate_invoice: the cross-check of the cleaned data, and
\* the tuple returned
Validated(cleaned, warnings) ==
    [raised |-> FALSE,
     cleaned |-> cleaned,
     errors |-> <<>>,
     warnings |-> warnings \o CrossValidateAmounts(cleaned)]

\* cleaned_data after the four update() calls, and the warnings so far; an
\* exception of _validate_financial_data leaves validate_invoice at once,
\* with the warnings appended until then in self.warnings
Assemble(supplier, financial, dates, contact) ==
    IF financial.exc.t # "none"
    THEN [raised |-> TRUE, exc |-> financial.exc,
          warnings |-> supplier.w \o financial.w]
    ELSE
    Validated(Update(Update(Update(supplier.data, financial.data), dates.data),
                     contact.data),
              supplier.w \o financial.w \o dates.w \o contact.w)

\* the four field checks on the normalised data
ValidateFields(normalized) ==
    Assemble(ValidateSupplierInfo(normalized), ValidateFinancialData(normalized),
             ValidateDates(normalized), ValidateContactInfo(normalized))

\* validate_invoice: [raised, exc] when the argument has no .get (it is not
\* a dict), else [raised, cleaned, errors, warnings]
ValidateInvoice(invoice_data) ==
    IF invoice_data.t # "dict"
    THEN [raised |-> TRUE, warnings |-> <<>>,
          exc |-> IF invoice_data.t = "list"
                  THEN Msg("'list' object has no attribute 'get'", <<>>)
                  ELSE Msg("argument is not iterable", <<>>)]
    ELSE ValidateFields(NormalizeLlmOutput(invoice_data))

------------------------------------------------------------------------------
(* Chain.extract_invoice_data                                               *)

AcmeSupplier ==
    Dict([k \in {"name", "vat_number"} |->
            IF k = "name" THEN Str(<<"A", "c", "m", "e", " ", "L", "t", "d">>)
            ELSE Str(<<"g", "b", "1", "2", "3", "4", "5", "6", "7", "8", "9">>)])

\* an invoice as the LLM reports it: nested supplier, net 100.00, tax 20.00
Invoice(total) ==
    Dict([k \in {"supplier", "total_net", "total_tax", "total_amount"} |->
            CASE k = "supplier"     -> AcmeSupplier
              [] k = "total_net"    -> Num(10000)
              [] k = "total_tax"    -> Num(2000)
              [] k = "total_amount" -> Num(total)])

\* the invoice with total 120.00 and the text net in place of its net amount
InvoiceWithNet(net) == Dict(With(Invoice(12000).v, "total_net", Str(net)))

\* what OpenAIProvider.generate_text returns: None when the provider is
\* unreachable or answers nothing, else the text of the answer
Responses ==
    << None,
       Str(<<"S", "o", "r", "r", "y">>),
       JsonDumps(Str(<<"n", "/", "a">>)),
       JsonDumps(List(<<>>)),
       JsonDumps(Invoice(12000)),
       JsonDumps(Invoice(15000)),
       JsonDumps(InvoiceWithNet(<<"a", "b", "o", "u", "t", " ", "1", "0", "0">>)),
       JsonDumps(InvoiceWithNet(<<"s", "N", "a", "N">>)) >>

\* the responses that are JSON objects
WellFormed == {5, 6, 7, 8}

ErrorDict(text) == Dict([k \in {"error"} |-> Str(<<text>>)])

\* extract_invoice_data, given the provider's response
ExtractInvoiceData(response) ==
    IF ~Truthy(response) THEN ErrorDict("Empty response from LLM")
    ELSE IF JsonLoads(response).ok THEN JsonLoads(response).value
    ELSE Dict([k \in {"error", "raw_text"} |->
                 IF k = "error" THEN Str(<<"Invalid JSON response">>) ELSE response])

------------------------------------------------------------------------------
(* InvoiceService                                                           *)

\* float(text) for text over digits, ".", signs and letters: as Decimal(text),
\* but a signaling NaN is a ValueError (None)
ParseFloat(s) == IF ParseDecimal(s).t = "snan" THEN None ELSE ParseDecimal(s)

\* InvoiceService._parse_numeric
ParseNumeric(value) ==
    CASE value.t = "none" -> None
      [] value.t \in {"num", "nan", "inf"} -> value
      [] value.t = "str"  -> ParseFloat(Without(Strip(value.v), Removed))
      [] OTHER -> None

\* InvoiceService._parse_date: the loop over the seven formats of its list,
\* which are the first seven of the validator's list
ServiceParseDate(value) ==
    IF ~Truthy(value) THEN None
    ELSE IF value.t = "dt" THEN value
    ELSE TryFormats(Strip(PyStr(value)), 1, ValidatorFormats - 1)

Columns ==
    {"supplier_name", "supplier_address", "supplier_email", "supplier_phone_number",
     "supplier_vat_number", "supplier_website", "expense_date", "invoice_number",
     "currency", "total_net", "total_tax", "total_amount"}

\* the row create_invoice adds for data the validator has cleaned: on such
\* data _clean_string, _parse_numeric and _parse_date return their argument
CreateInvoice(rows, invoice_data, ocr_text) ==
    Append(rows, [id |-> Len(rows) + 1,
                  fields |-> [k \in Columns |-> Get(Dict(invoice_data), k, None)],
                  original_ocr_text |-> ocr_text])

------------------------------------------------------------------------------
(* PipelineService.process_invoice_pipeline                                 *)

\* what an upload_* call of the object store does: stores the object and
\* returns its name, returns no name, or raises
Outcomes == {"ok", "none", "throw"}

OcrText == Str(<<"I", "N", "V">>)

\* a temp path shared by all invoices
SharedTempPath(i) == <<0, i.filename>>

\* f"/tmp/invoice_{invoice_id}_{filename}"
TempPathOf(i) == <<i.invoice_id, i.filename>>

TempPath == TempPathOf(inv)

NoInvoice == [invoice_id |-> 0, filename |-> Filename]

NoReturn == [op |-> "none"]

NewResult == [stages |-> <<>>, errors |-> <<>>, warnings |-> <<>>,
              final_status |-> "unset", cleaned_data |-> None]

Unset == [t |-> "unset"]

\* the locals of a run, and what the run has done so far: the artifacts it
\* stored (wrote), the rows it committed (created), and the number of
\* collaborator failures there had been when it started (faults0)
NewLocals == [ocr_text |-> None, response |-> Unset, llm_data |-> None,
              cleaned |-> <<>>, errors |-> <<>>, warnings |-> <<>>, exc |-> None,
              wrote |-> <<>>, created |-> 0, faults0 |-> 0]

\* the locals after an upload with the given outcome
Wrote(l, outcome, bucket, content) ==
    IF outcome = "ok" THEN [l EXCEPT !.wrote = With(@, bucket, content)] ELSE l

Exc(text) == Msg(text, <<>>)

\* an except clause that sets the status and drops the message
FailedSilently(res, exc) == [res EXCEPT !.final_status = "failed"]

\* the except clause: final_status "failed", str(e) appended to errors
Failed(res, exc) ==
    [res EXCEPT !.final_status = "failed", !.errors = Append(@, exc)]

\* an except clause after which the run goes on with the next stage
RaiseAndGoOn(exc) ==
    /\ thrown' = exc
    /\ result' = Failed(result, exc)
    /\ pc' = IF pc = "ocr_finally" THEN "llm" ELSE "done"

\* an exception raised in the try block reaches the except clause, and the
\* function goes on to return pipeline_result
Raise(exc) ==
    /\ thrown' = exc
    /\ result' = Failed(result, exc)
    /\ pc' = "done"

\* the stage entry an upload leaves in pipeline_result["stages"]
UploadEntry(outcome, name) ==
    [status |-> IF outcome = "ok" THEN "success" ELSE "failed",
     object_name |-> IF outcome = "ok" THEN Str(name) ELSE None]

\* the store after an upload with the given outcome
Uploaded(outcome, bucket, content) ==
    IF outcome = "ok"
    THEN PutObject(store, bucket,
                   StageObject(bucket, inv.invoice_id, inv.filename), content)
    ELSE store

\* a collaborator outcome: a failure is taken while the budget lasts
Budget(failure) ==
    /\ failure => faults < MaxFaults
    /\ faults' = IF failure THEN faults + 1 ELSE faults

\* a request for process_invoice_pipeline arrives
Start(id) ==
    /\ pc = "idle"
    /\ nruns < MaxRuns
    /\ nruns' = nruns + 1
    /\ inv' = [invoice_id |-> id, filename |-> Filename]
    /\ result' = NewResult
    /\ loc' = [NewLocals EXCEPT !.faults0 = faults]
    /\ trace' = <<>>
    /\ pc' = "raw_upload"
    /\ ret' = NoReturn
    /\ thrown' = None
    /\ written' = [written EXCEPT ![id].runs = @ + 1]
    /\ UNCHANGED <<store, tempFiles, db, calls, faults, parked, applied, handlers>>

\* return pipeline_result: the frame of the run is gone.  The /extract
\* handler binds the value to result and falls off its end, so the client
\* is answered None
Return ==
    /\ pc = "done"
    /\ pc' = "idle"
    /\ result' = NewResult
    /\ loc' = NewLocals
    /\ trace' = <<>>
    /\ inv' = NoInvoice
    /\ thrown' = None
    /\ ret' = [op |-> "extract", id |-> inv.invoice_id, raised |-> FALSE,
               ran |-> TRUE, result |-> result, value |-> None]
    /\ UNCHANGED <<written, store, tempFiles, db, calls, nruns, faults, parked, applied, handlers>>

\* /extract when PipelineService() raises: the handler's except clause
\* answers {"error": str(e)}
ExtractError ==
    /\ pc = "idle"
    /\ nruns < MaxRuns
    /\ nruns' = nruns + 1
    /\ Budget(TRUE)
    /\ ret' = [op |-> "extract", id |-> 0, raised |-> FALSE,
               ran |-> FALSE, result |-> NewResult,
               value |-> ErrorDict("object store unreachable")]
    /\ UNCHANGED <<written, store, tempFiles, db, calls, parked, applied, handlers>>
    /\ UNCHANGED frame

\* stage 1: upload_raw_invoice
RawUpload(outcome) ==
    /\ pc = "raw_upload"
    /\ Budget(outcome # "ok")
    /\ trace' = Append(trace, "raw_upload")
    /\ store' = Uploaded(outcome, "raw_invoices", Str(<<"bytes">>))
    /\ IF outcome = "throw"
       THEN /\ Raise(Exc("raw upload error"))
       ELSE /\ result' = [result EXCEPT !.stages =
                    With(@, "raw_upload",
                         UploadEntry(outcome, StageObject("raw_invoices",
                                        inv.invoice_id, inv.filename)))]
            /\ pc' = "temp_write"
            /\ UNCHANGED thrown
    /\ loc' = Wrote(loc, outcome, "raw_invoices", Str(<<"bytes">>))
    /\ UNCHANGED <<written, tempFiles, db, inv, calls, nruns, ret, parked, applied, handlers>>

\* the temp file for OCR: open() raises, write() raises after the file was
\* created, or the file is written
TempWrite(outcome) ==
    /\ pc = "temp_write"
    /\ Budget(outcome # "ok")
    /\ tempFiles' = IF outcome = "open_throws" THEN tempFiles
                    ELSE tempFiles \cup {TempPath}
    /\ IF outcome = "ok"
       THEN /\ pc' = "ocr"
            /\ UNCHANGED <<result, thrown>>
       ELSE /\ Raise(Exc("temp file error"))
    /\ UNCHANGED <<written, store, db, inv, loc, trace, calls, nruns, ret, parked, applied, handlers>>

\* stage 2, in the try block: extract_text_from_image returns the text (the
\* empty string when nothing was recognised) or raises; there is no text to
\* return when the file at temp_path is gone
OcrExtract(outcome) ==
    /\ pc = "ocr"
    /\ outcome = "text" => TempPath \in tempFiles
    /\ Budget(outcome # "text" /\ TempPath \in tempFiles)
    /\ trace' = Append(trace, "ocr_extraction")
    /\ calls' = [calls EXCEPT !.ocr = @ + 1]
    /\ loc' = CASE outcome = "text"  -> [loc EXCEPT !.ocr_text = OcrText]
                [] outcome = "empty" -> [loc EXCEPT !.ocr_text = EmptyStr]
                [] outcome = "throw" -> [loc EXCEPT !.exc = Exc("ocr error")]
    /\ pc' = IF outcome = "throw" THEN "ocr_finally" ELSE "ocr_upload"
    /\ UNCHANGED <<written, store, tempFiles, db, inv, result, thrown, nruns, ret, parked, applied, handlers>>

\* stage 2, in the try block: upload_ocr_output and the stage entry
OcrUpload(outcome) ==
    /\ pc = "ocr_upload"
    /\ Budget(outcome # "ok")
    /\ store' = Uploaded(outcome, "ocr_output", loc.ocr_text)
    /\ IF outcome = "throw"
       THEN /\ loc' = [loc EXCEPT !.exc = Exc("ocr upload error")]
            /\ UNCHANGED result
       ELSE /\ result' = [result EXCEPT !.stages =
                    With(@, "ocr_extraction",
                         [status |-> UploadEntry(outcome, <<>>).status,
                          object_name |-> UploadEntry(outcome,
                                StageObject("ocr_output", inv.invoice_id,
                                            inv.filename)).object_name,
                          text_length |-> Len(loc.ocr_text.v)])]
            /\ loc' = Wrote(loc, outcome, "ocr_output", loc.ocr_text)
    /\ pc' = "ocr_finally"
    /\ UNCHANGED <<written, tempFiles, db, inv, trace, thrown, calls, nruns, ret, parked, applied, handlers>>

\* the finally clause (the temp file is removed), then the exception of the
\* try block propagates, or the check of ocr_text
OcrFinally ==
    /\ pc = "ocr_finally"
    /\ tempFiles' = tempFiles \ {TempPath}
    /\ IF loc.exc.t # "none"
       THEN /\ Raise(loc.exc)
       ELSE IF ~Truthy(loc.ocr_text)
       THEN /\ Raise(Exc("OCR extraction failed"))
       ELSE /\ pc' = "llm"
            /\ UNCHANGED <<result, thrown>>
    /\ UNCHANGED <<written, store, db, inv, loc, trace, calls, nruns, faults, ret, parked, applied, handlers>>

\* stage 3: extract_invoice_data on the provider's i-th response (i = 0: the
\* call raises), then the parse of a str result
LlmExtract(i) ==
    /\ pc = "llm"
    /\ Budget(i \notin WellFormed)
    /\ trace' = Append(trace, "llm_extraction")
    /\ calls' = [calls EXCEPT !.llm = @ + 1]
    /\ \E llm_result \in {IF i = 0 THEN None ELSE ExtractInvoiceData(Responses[i])} :
           IF i = 0
           THEN /\ Raise(Exc("LLM provider is not initialized."))
                /\ UNCHANGED loc
           ELSE IF llm_result.t = "str" /\ ~JsonLoads(llm_result).ok
           THEN /\ Raise(Exc("Invalid JSON from LLM"))
                /\ loc' = [loc EXCEPT !.response = Responses[i]]
           ELSE /\ loc' = [loc EXCEPT !.response = Responses[i], !.llm_data =
                              IF llm_result.t = "str" THEN JsonLoads(llm_result).value
                              ELSE llm_result]
                /\ pc' = "llm_upload"
                /\ UNCHANGED <<result, thrown>>
    /\ UNCHANGED <<written, store, tempFiles, db, inv, nruns, ret, parked, applied, handlers>>

\* stage 3: upload_llm_output and the stage entry
LlmUpload(outcome) ==
    /\ pc = "llm_upload"
    /\ Budget(outcome # "ok")
    /\ store' = Uploaded(outcome, "llm_output", JsonDumps(loc.llm_data))
    /\ IF outcome = "throw"
       THEN /\ Raise(Exc("llm upload error"))
       ELSE /\ result' = [result EXCEPT !.stages =
                    With(@, "llm_extraction",
                         UploadEntry(outcome, StageObject("llm_output",
                                        inv.invoice_id, inv.filename)))]
            /\ pc' = "validate"
            /\ UNCHANGED thrown
    /\ loc' = Wrote(loc, outcome, "llm_output", JsonDumps(loc.llm_data))
    /\ UNCHANGED <<written, tempFiles, db, inv, trace, calls, nruns, ret, parked, applied, handlers>>

\* stage 4: validate_invoice, its errors and warnings, the stage entry
Validate ==
    /\ pc = "validate"
    /\ trace' = Append(trace, "data_validation")
    /\ \E v \in {ValidateInvoice(loc.llm_data)} :
           IF v.raised
           THEN /\ Raise(v.exc)
                /\ UNCHANGED loc
           ELSE /\ loc' = [loc EXCEPT !.cleaned = v.cleaned, !.errors = v.errors,
                                      !.warnings = v.warnings]
                /\ result' = [result EXCEPT
                      !.errors = @ \o v.errors,
                      !.warnings = @ \o v.warnings,
                      !.stages = With(@, "data_validation",
                          [status |-> IF v.errors = <<>> THEN "success" ELSE "failed",
                           errors_count |-> Len(v.errors),
                           warnings_count |-> Len(v.warnings)])]
                /\ pc' = "cleaned_upload"
                /\ UNCHANGED thrown
    /\ UNCHANGED <<written, store, tempFiles, db, inv, calls, nruns, faults, ret, parked, applied, handlers>>

\* one more cleaned artifact of the invoice has been stored
Record(w, id, content) == [w EXCEPT ![id].n = @ + 1, ![id].last = content]

Bool(b) == [t |-> "bool", v |-> b]

\* {**cleaned_data, "validation_results": {...}}
WithValidation(cleaned, errors, warnings) ==
    Dict(With(cleaned, "validation_results",
              Dict([k \in {"errors", "warnings", "is_valid"} |->
                      CASE k = "errors"   -> List(errors)
                        [] k = "warnings" -> List(warnings)
                        [] k = "is_valid" -> Bool(Len(errors) = 0)])))

\* stage 5: upload_cleaned_invoice and the stage entry
CleanedUpload(outcome) ==
    /\ pc = "cleaned_upload"
    /\ Budget(outcome # "ok")
    /\ trace' = Append(trace, "cleaned_upload")
    /\ store' = Uploaded(outcome, "cleaned_invoices",
                         JsonDumps(WithValidation(loc.cleaned, loc.errors, loc.warnings)))
    /\ written' = IF outcome = "ok"
                  THEN Record(written, inv.invoice_id,
                              WithValidation(loc.cleaned, loc.errors, loc.warnings))
                  ELSE written
    /\ IF outcome = "throw"
       THEN /\ Raise(Exc("cleaned upload error"))
       ELSE /\ result' = [result EXCEPT !.stages =
                    With(@, "cleaned_upload",
                         UploadEntry(outcome, StageObject("cleaned_invoices",
                                        inv.invoice_id, inv.filename)))]
            /\ pc' = "db_save"
            /\ UNCHANGED thrown
    /\ loc' = Wrote(loc, outcome, "cleaned_invoices",
                    JsonDumps(WithValidation(loc.cleaned, loc.errors, loc.warnings)))
    /\ UNCHANGED <<tempFiles, db, inv, calls, nruns, ret, parked, applied, handlers>>

\* final_status after the last stage
FinalStatus(errors, warnings) ==
    IF Len(errors) = 0 THEN "success" ELSE "success_with_warnings"

\* stage 6: create_invoice adds the row, commits and refreshes it; the
\* commit may raise (no row is stored), and so may the refresh that follows
\* a commit (the row is stored).  Then the stage entry, final_status and
\* cleaned_data
DbSave(outcome) ==
    /\ pc = "db_save"
    /\ Budget(outcome # "ok")
    /\ trace' = Append(trace, "database_save")
    /\ db' = IF outcome = "throw" THEN db
             ELSE CreateInvoice(db, loc.cleaned, loc.ocr_text)
    /\ loc' = IF outcome = "throw" THEN loc ELSE [loc EXCEPT !.created = @ + 1]
    /\ IF outcome = "ok"
       THEN /\ result' = [result EXCEPT
                  !.stages = With(@, "database_save",
                                  [status |-> "success", database_id |-> Len(db) + 1]),
                  !.final_status = FinalStatus(loc.errors, loc.warnings),
                  !.cleaned_data = Dict(loc.cleaned)]
            /\ pc' = "done"
            /\ UNCHANGED thrown
       ELSE /\ Raise(Exc(IF outcome = "throw" THEN "database error"
                         ELSE "database refresh error"))
    /\ UNCHANGED <<written, store, tempFiles, inv, calls, nruns, ret, parked, applied, handlers>>

------------------------------------------------------------------------------
(* PipelineService: status, cleaned data, reprocessing                      *)

\* get_pipeline_status
GetPipelineStatus(id) ==
    /\ pc = "idle"
    /\ ret' = [op |-> "status", id |-> id, raised |-> FALSE,
               value |-> [s \in {"raw_upload", "ocr_extraction", "llm_extraction",
                                 "cleaned_data"} |->
                    LET bucket == CASE s = "raw_upload"     -> "raw_invoices"
                                    [] s = "ocr_extraction" -> "ocr_output"
                                    [] s = "llm_extraction" -> "llm_output"
                                    [] s = "cleaned_data"   -> "cleaned_invoices"
                    IN  Cardinality(ListObjects(store, bucket, NamePrefix(id))) > 0]]
    /\ UNCHANGED <<written, store, tempFiles, db, calls, nruns, faults, parked, applied, handlers>>
    /\ UNCHANGED frame

\* a get_cleaned_invoice_data that returns the stored bytes unparsed
CleanedInvoiceBytes(st, id) ==
    GetObject(st, "cleaned_invoices", ObjectName(id, "cleaned.json"))

\* the value get_cleaned_invoice_data returns
CleanedInvoiceData(st, id) ==
    LET data == GetObject(st, "cleaned_invoices", ObjectName(id, "cleaned.json"))
    IN  IF Truthy(data) THEN JsonLoads(data).value ELSE None

\* get_cleaned_invoice_data
GetCleanedInvoiceData(id) ==
    /\ pc = "idle"
    /\ ret' = [op |-> "cleaned", id |-> id, raised |-> FALSE,
               value |-> CleanedInvoiceData(store, id)]
    /\ UNCHANGED <<written, store, tempFiles, db, calls, nruns, faults, parked, applied, handlers>>
    /\ UNCHANGED frame

\* reprocess_invoice after the LLM artifact was found and validate_invoice
\* has run on it.  pipeline_service.py does not import datetime, so building
\* validation_results raises NameError before anything is uploaded.
Revalidated(base, v) ==
    base @@ [raised |-> TRUE, validated |-> TRUE,
             value |-> IF v.raised THEN v.exc
                       ELSE Exc("name 'datetime' is not defined")]

\* reprocess_invoice without the check for a missing LLM artifact
ReprocessedUnchecked(base, bytes) ==
    Revalidated(base, ValidateInvoice(JsonLoads(bytes).value))

\* reprocess_invoice from the bytes of the LLM artifact
Reprocessed(base, bytes) ==
    IF ~Truthy(bytes)
    THEN base @@ [raised |-> FALSE, validated |-> FALSE,
                  value |-> ErrorDict("No LLM output found for this invoice")]
    ELSE Revalidated(base, ValidateInvoice(JsonLoads(bytes).value))

\* a reprocess_invoice that also fetches the OCR artifact
ReprocessOutcomeFromOcr(st, id) ==
    Reprocessed([op |-> "reprocess", id |-> id,
                 reads |-> {<<"ocr_output", ObjectName(id, "ocr.txt")>>,
                            <<"llm_output", ObjectName(id, "llm.json")>>},
                 upload |-> None],
                GetObject(st, "llm_output", ObjectName(id, "llm.json")))

\* what reprocess_invoice does, given the store: the objects it reads,
\* whether it runs validate_invoice, the object it uploads (None: none), and
\* what it returns (raised = FALSE) or raises (raised = TRUE)
ReprocessOutcome(st, id) ==
    Reprocessed([op |-> "reprocess", id |-> id,
                 reads |-> {<<"llm_output", ObjectName(id, "llm.json")>>},
                 upload |-> None],
                GetObject(st, "llm_output", ObjectName(id, "llm.json")))

\* a reprocess_invoice that also saves a record of what it validated
ReprocessInvoiceSaving(id) ==
    /\ pc = "idle"
    /\ \E out \in {ReprocessOutcome(store, id)} :
        /\ ret' = out
        /\ db' = IF out.validated THEN CreateInvoice(db, <<>>, None) ELSE db
    /\ UNCHANGED <<store, written, tempFiles, calls, nruns, faults, parked, applied, handlers>>
    /\ UNCHANGED frame

\* reprocess_invoice
ReprocessInvoice(id) ==
    /\ pc = "idle"
    /\ \E out \in {ReprocessOutcome(store, id)} :
        /\ ret' = out
        /\ store' = IF out.upload.t = "none" THEN store
                    ELSE PutObject(store, "cleaned_invoices",
                                   ObjectName(id, "cleaned.json"), JsonDumps(out.upload))
        /\ written' = IF out.upload.t = "none" THEN written
                      ELSE Record(written, id, out.upload)
    /\ UNCHANGED <<tempFiles, db, calls, nruns, faults, parked, applied, handlers>>
    /\ UNCHANGED frame

------------------------------------------------------------------------------
(* Request handlers (server.py) and the database sessions they hold.  Each   *)
(* handler builds its own PipelineService, whose constructor opens a         *)
(* session; the instance is a local of the handler and is finalised          *)
(* (__del__) once the handler has returned or raised.                        *)

Handlers == 1..MaxHandlers

\* a worker that serves no request
NoRequest ==
    [op |-> "none", at |-> "idle", built |-> FALSE, db |-> "unset", opened |-> 0,
     dep |-> "none", raised |-> FALSE, n |-> 0]

\* __del__ that leaves the session as it is
FinalizedWithoutClose(h) == h

\* PipelineService.__init__: the object store client is built first, then
\* the session is opened and handed to the InvoiceService
Constructed(h, outcome) ==
    IF outcome = "ok"
    THEN [h EXCEPT !.built = TRUE, !.db = "open", !.opened = @ + 1, !.at = "operate"]
    ELSE [h EXCEPT !.built = TRUE, !.raised = TRUE, !.at = "respond"]

\* PipelineService.__del__: close the session if the constructor got as far
\* as opening it
Finalized(h) ==
    IF h.db # "unset" THEN [h EXCEPT !.db = "closed"] ELSE h

\* the framework resolves the dependencies and calls the handler; /extract
\* depends on get_db, and returns at once when the upload has no filename
Request(h, op, named) ==
    /\ handlers[h].at = "idle"
    /\ handlers[h].n < MaxRequests
    /\ handlers' = [handlers EXCEPT ![h] =
            [op |-> op, built |-> FALSE, db |-> "unset", opened |-> 0,
             raised |-> FALSE, n |-> handlers[h].n + 1,
             dep |-> IF op = "extract" THEN "open" ELSE "none",
             at |-> IF op = "extract" /\ ~named THEN "respond" ELSE "construct"]]
    /\ UNCHANGED <<pipeline, applied>>

\* pipeline_service = PipelineService()
Construct(h, outcome) ==
    /\ handlers[h].at = "construct"
    /\ handlers' = [handlers EXCEPT ![h] = Constructed(@, outcome)]
    /\ UNCHANGED <<pipeline, applied>>

\* the operation of the handler on its instance returns or raises
Operate(h, outcome) ==
    /\ handlers[h].at = "operate"
    /\ handlers' = [handlers EXCEPT ![h] =
            [@ EXCEPT !.raised = (outcome = "raise"), !.at = "respond"]]
    /\ UNCHANGED <<pipeline, applied>>

\* the handler returns or its exception propagates: the framework runs the
\* rest of get_db, and the instance, if one was built, is unreferenced
Respond(h) ==
    /\ handlers[h].at = "respond"
    /\ handlers' = [handlers EXCEPT ![h] =
            [@ EXCEPT !.dep = IF @ = "open" THEN "closed" ELSE @,
                      !.at = IF handlers[h].built THEN "garbage" ELSE "idle"]]
    /\ UNCHANGED <<pipeline, applied>>

\* the interpreter finalises the unreferenced instance
Del(h) ==
    /\ handlers[h].at = "garbage"
    /\ handlers' = [handlers EXCEPT ![h] = [Finalized(@) EXCEPT !.at = "idle"]]
    /\ UNCHANGED <<pipeline, applied>>

------------------------------------------------------------------------------
(* Specification                                                            *)

\* the frame of a run that has not started
Idle == <<"idle", NoInvoice, NewResult, NewLocals, <<>>, None>>

Init ==
    /\ store = [b \in Buckets |-> <<>>]
    /\ tempFiles = {}
    /\ db = <<>>
    /\ pc = "idle"
    /\ inv = NoInvoice
    /\ result = NewResult
    /\ loc = NewLocals
    /\ trace = <<>>
    /\ calls = [ocr |-> 0, llm |-> 0]
    /\ nruns = 0
    /\ faults = 0
    /\ thrown = None
    /\ written = [id \in Ids |-> [runs |-> 0, n |-> 0, last |-> None]]
    /\ ret = NoReturn
    /\ parked = Idle
    /\ handlers = [h \in Handlers |-> NoRequest]
    /\ applied = [op |-> "none", done |-> TRUE]

Next ==
    \/ \E id \in Ids : Start(id)
    \/ Return
    \/ \E o \in Outcomes : RawUpload(o)
    \/ \E o \in {"ok", "open_throws", "write_throws"} : TempWrite(o)
    \/ \E o \in {"text", "empty", "throw"} : OcrExtract(o)
    \/ \E o \in Outcomes : OcrUpload(o)
    \/ OcrFinally
    \/ \E i \in 0..Len(Responses) : LlmExtract(i)
    \/ \E o \in Outcomes : LlmUpload(o)
    \/ Validate
    \/ \E o \in Outcomes : CleanedUpload(o)
    \/ \E o \in {"ok", "throw", "refresh_throws"} : DbSave(o)
    \/ ExtractError
    \/ \E id \in Ids : GetPipelineStatus(id)
    \/ \E id \in Ids : GetCleanedInvoiceData(id)
    \/ \E id \in Ids : ReprocessInvoice(id)

Spec == Init /\ [][Next]_vars

------------------------------------------------------------------------------
(* Two pipeline runs on worker threads (run_in_threadpool): the running one  *)
(* takes the steps of process_invoice_pipeline, the other one is parked.     *)

\* the scheduler lets the other run execute
Switch ==
    /\ pc' = parked[1]
    /\ inv' = parked[2]
    /\ result' = parked[3]
    /\ loc' = parked[4]
    /\ trace' = parked[5]
    /\ thrown' = parked[6]
    /\ parked' = frame
    /\ UNCHANGED <<written, store, tempFiles, db, calls, nruns, faults, ret, applied, handlers>>

NextThreads ==
    \/ \E id \in Ids : Start(id)
    \/ Return
    \/ \E o \in Outcomes : RawUpload(o)
    \/ \E o \in {"ok", "open_throws", "write_throws"} : TempWrite(o)
    \/ \E o \in {"text", "empty", "throw"} : OcrExtract(o)
    \/ \E o \in Outcomes : OcrUpload(o)
    \/ OcrFinally
    \/ \E i \in 0..Len(Responses) : LlmExtract(i)
    \/ \E o \in Outcomes : LlmUpload(o)
    \/ Validate
    \/ \E o \in Outcomes : CleanedUpload(o)
    \/ \E o \in {"ok", "throw", "refresh_throws"} : DbSave(o)
    \/ Switch

ThreadsSpec == Init /\ [][NextThreads]_vars

------------------------------------------------------------------------------
(* The parsing and validation functions applied to inputs of bounded sets    *)

\* amount texts without currency symbol, comma or whitespace, each with the
\* value Decimal() and float() give it (None: they raise)
AmountCores ==
    << [text |-> <<"1", "0", "0">>,                     value |-> Num(10000)],
       [text |-> <<"1", "2", "3", "4", ".", "5", "0">>, value |-> Num(123450)],
       [text |-> <<"-", "5">>,                          value |-> Num(-500)],
       [text |-> <<".", "5">>,                          value |-> Num(50)],
       [text |-> <<"7", ".">>,                          value |-> Num(700)],
       [text |-> <<"a", "b", "c">>,                     value |-> None],
       [text |-> <<"1", ".", "2", ".", "3">>,           value |-> None],
       [text |-> <<"1", "2", "a">>,                     value |-> None],
       [text |-> <<>>,                                  value |-> None] >>

Pads == {<<>>, <<" ">>, <<"\t", " ">>}

\* the text with a currency symbol before or after it, a comma after its
\* first character, and whitespace around and inside
Decorated(text, sym, after, comma, pad) ==
    LET digits == IF comma /\ Len(text) > 1
                  THEN <<Head(text), ",">> \o Tail(text) ELSE text
    IN  pad \o (IF after THEN digits \o pad \o sym ELSE sym \o pad \o digits) \o pad

\* _validate_amount and _parse_numeric on the amount text
ApplyAmount ==
    /\ applied.op = "amount" /\ ~applied.done
    /\ applied' = [op |-> "amount", done |-> TRUE, core |-> applied.core,
                   text |-> applied.text,
                   decimal |-> ValidateAmount(Str(applied.text)),
                   numeric |-> ParseNumeric(Str(applied.text))]
    /\ UNCHANGED <<pipeline, handlers>>

\* the keys _normalize_llm_output reads for each field, in its order
Aliases ==
    [k \in {"expense_date", "total_net", "total_tax", "total_amount"} |->
        CASE k = "expense_date" -> <<"expense_date", "invoice_date", "date">>
          [] k = "total_net"    -> <<"total_net", "subtotal", "net_amount">>
          [] k = "total_tax"    -> <<"total_tax", "tax_amount", "vat_amount">>
          [] k = "total_amount" -> <<"total_amount", "total_amount_incl_tax",
                                     "grand_total", "amount_due">>]

\* the values an LLM answer gives an alias of a field (the first entry: the
\* key is absent)
AliasValues(field) ==
    IF field = "expense_date"
    THEN << None, EmptyStr, Str(<<"2", "0", "2", "4", "-", "0", "1", "-", "0", "5">>),
            Str(<<"0", "5", "/", "0", "1", "/", "2", "0", "2", "4">>) >>
    ELSE << None, Num(0), Num(10000), Num(12000) >>

\* the LLM answer that gives the j-th alias of the two fields its
\* choice[j]-th value
AliasData(first, second, choice) ==
    LET keys == Aliases[first] \o Aliases[second]
        field(j) == IF j <= Len(Aliases[first]) THEN first ELSE second
    IN  Dict([k \in {keys[j] : j \in {i \in 1..Len(keys) : choice[i] # 1}} |->
                LET j == CHOOSE i \in 1..Len(keys) : keys[i] = k
                IN  AliasValues(field(j))[choice[j]]])

\* _normalize_llm_output on the answer
ApplyNormalize ==
    /\ applied.op = "normalize" /\ ~applied.done
    /\ applied' = [op |-> "normalize", done |-> TRUE, data |-> applied.data,
                   normalized |-> NormalizeLlmOutput(applied.data)]
    /\ UNCHANGED <<pipeline, handlers>>

\* the amounts an LLM answer gives total_net, total_tax and total_amount (the
\* first entry: the key is absent)
Amounts ==
    [k \in {"total_net", "total_tax", "total_amount"} |->
        CASE k = "total_net"    -> << None, Num(10000), Num(102) >>
          [] k = "total_tax"    -> << None, Num(0), Num(2000) >>
          [] k = "total_amount" -> << None, Num(100), Num(11997), Num(11998),
                                      Num(12000), Num(12002), Num(12003),
                                      Num(15000) >>]

\* the answer that gives the j-th amount field its choice[j]-th amount
AmountData(choice) ==
    Dict([k \in {AmountFields[j] : j \in {i \in 1..3 : choice[i] # 1}} |->
            Amounts[k][choice[CHOOSE j \in 1..3 : AmountFields[j] = k]]])

\* the values an LLM answer gives the contact fields of a supplier (the
\* first entry: the key is absent)
ContactValues ==
    [k \in {"supplier_email", "supplier_phone_number", "supplier_vat_number",
            "supplier_website"} |->
        CASE k = "supplier_email" ->
                << None, Str(<<"A", "@", "b", ".", "c", "o">>), Str(<<"n", "o", "p", "e">>) >>
          [] k = "supplier_phone_number" ->
                << None, Str(<<"+", "1", " ", "2", "3", "4", " ", "5", "6", "7", "8">>),
                   Str(<<"1", "2", "3">>) >>
          [] k = "supplier_vat_number" ->
                << None, Str(<<"G", "B", "1", "2", "3", "4", "5", "6", "7", "8">>),
                   Str(<<"1", "2">>) >>
          [] k = "supplier_website" ->
                << None, Str(<<"a", "c", "m", "e", ".", "c", "o", "m">>),
                   Str(<<"l", "o", "c", "a", "l", "h", "o", "s", "t">>) >>]

\* the answer that gives each key k its choice[k]-th value
Chosen(values, choice) ==
    Dict([k \in {x \in DOMAIN values : choice[x] # 1} |-> values[k][choice[k]]])

\* date texts in each format of the list, day/month and month/day readings,
\* days that do not exist, and a text that is no date
DateTexts ==
    << <<"2", "0", "2", "4", "-", "0", "1", "-", "0", "5">>,
       <<"0", "5", "/", "0", "1", "/", "2", "0", "2", "4">>,
       <<"0", "1", "/", "1", "3", "/", "2", "0", "2", "4">>,
       <<"1", "3", "/", "0", "1", "/", "2", "0", "2", "4">>,
       <<"5", "/", "1", "/", "2", "0", "2", "4">>,
       <<"0", "5", "-", "0", "1", "-", "2", "0", "2", "4">>,
       <<"2", "0", "2", "4", "/", "0", "1", "/", "0", "5">>,
       <<"J", "a", "n", "u", "a", "r", "y", " ", "5", ",", " ", "2", "0", "2", "4">>,
       <<"5", " ", "J", "a", "n", "u", "a", "r", "y", " ", "2", "0", "2", "4">>,
       <<"0", "5", ".", "0", "1", ".", "2", "0", "2", "4">>,
       <<"3", "1", "/", "0", "4", "/", "2", "0", "2", "4">>,
       <<"2", "9", "/", "0", "2", "/", "2", "0", "2", "3">>,
       <<" ", "2", "0", "2", "4", "-", "0", "1", "-", "0", "5", " ">>,
       <<"s", "o", "o", "n">> >>

\* the two _parse_date functions on the date text
ApplyDate ==
    /\ applied.op = "date" /\ ~applied.done
    /\ applied' = [op |-> "date", done |-> TRUE, text |-> applied.text,
                   validator |-> ParseDate(Str(applied.text)),
                   service |-> ServiceParseDate(Str(applied.text))]
    /\ UNCHANGED <<pipeline, handlers>>

\* the values an LLM answer gives the fields that have a length limit: the
\* key is absent, a text of the limit's length, one character more, the
\* limit's length inside whitespace, and one character more once its inner
\* whitespace is collapsed
LengthValues ==
    [k \in {"supplier_name", "currency", "invoice_number"} |->
        LET limit == CASE k = "supplier_name"  -> MaxNameLen
                       [] k = "currency"       -> MaxCurrencyLen
                       [] k = "invoice_number" -> MaxInvoiceNumberLen
            text(n) == [i \in 1..n |-> "e"]
        IN  << None, Str(text(limit)), Str(text(limit + 1)),
               Str(<<" ">> \o text(limit) \o <<"\t">>),
               Str(text(limit - 1) \o <<" ", " ", "u", "r">>) >>]

\* validate_invoice on the answer
ApplyValidate ==
    /\ applied.op = "validate" /\ ~applied.done
    /\ \E v \in {ValidateInvoice(applied.data)} :
          applied' = [op |-> "validate", done |-> TRUE, data |-> applied.data,
                      cleaned |-> v.cleaned, warnings |-> v.warnings]
    /\ UNCHANGED <<pipeline, handlers>>

\* InvoiceDataValidator(): the instance with its two lists.  Lists are
\* objects of a heap, and self.errors and self.warnings refer to them
NewValidator == [heap |-> << <<>>, <<>> >>, errors |-> 1, warnings |-> 2]

\* a validate_invoice that goes on with the lists it has
KeptLists(v) == v

\* self.errors = []; self.warnings = []: two new lists
Rebound(v) ==
    [heap |-> v.heap \o << <<>>, <<>> >>,
     errors |-> Len(v.heap) + 1, warnings |-> Len(v.heap) + 2]

\* validate_invoice on the instance v: the checks append to self.warnings,
\* and the lists themselves are returned with the cleaned data
CallValidateInvoice(v, data) ==
    LET r == Rebound(v)
        out == ValidateInvoice(data)
    IN  [validator |-> [r EXCEPT !.heap[r.warnings] = @ \o out.warnings],
         returned |-> IF out.raised THEN <<>>
                      ELSE << [data |-> data, cleaned |-> out.cleaned,
                               errors |-> r.errors, warnings |-> r.warnings] >>]

MaxCalls == 3

\* answers with a mismatch warning, with no warning, with an invalid amount
\* and with an amount on which validate_invoice raises
CallInputs ==
    << AmountData(<<2, 3, 8>>), Invoice(12000),
       InvoiceWithNet(<<"a", "b", "o", "u", "t", " ", "1", "0", "0">>),
       InvoiceWithNet(<<"s", "N", "a", "N">>) >>

\* the next call of validate_invoice on the one validator instance
ApplyCall ==
    /\ applied.op = "calls" /\ ~applied.done
    /\ \E c \in {CallValidateInvoice(applied.validator,
                                     CallInputs[applied.inputs[applied.k + 1]])} :
          applied' = [applied EXCEPT !.k = @ + 1,
                                     !.done = (applied.k + 1 = Len(applied.inputs)),
                                     !.validator = c.validator,
                                     !.returned = @ \o c.returned]
    /\ UNCHANGED <<pipeline, handlers>>

\* an input is chosen: a decorated amount text, an answer over the aliases
\* of two fields, or an answer of three amounts
InitFunctions ==
    /\ store = [b \in Buckets |-> <<>>]
    /\ tempFiles = {}
    /\ db = <<>>
    /\ pc = "idle"
    /\ inv = NoInvoice
    /\ result = NewResult
    /\ loc = NewLocals
    /\ trace = <<>>
    /\ calls = [ocr |-> 0, llm |-> 0]
    /\ nruns = 0
    /\ faults = 0
    /\ thrown = None
    /\ written = [id \in Ids |-> [runs |-> 0, n |-> 0, last |-> None]]
    /\ ret = NoReturn
    /\ parked = Idle
    /\ handlers = [h \in Handlers |-> NoRequest]
    /\ \/ \E i \in 1..Len(AmountCores), after \in BOOLEAN, comma \in BOOLEAN,
             sym \in {<<>>} \cup {<<c>> : c \in CurrencySymbols}, pad \in Pads :
               applied = [op |-> "amount", done |-> FALSE, core |-> i,
                          text |-> Decorated(AmountCores[i].text, sym, after, comma, pad)]
       \/ \E fields \in {<<"total_net", "total_amount">>, <<"total_tax", "expense_date">>} :
          \E choice \in [1..Len(Aliases[fields[1]] \o Aliases[fields[2]]) -> 1..4] :
               applied = [op |-> "normalize", done |-> FALSE,
                          data |-> AliasData(fields[1], fields[2], choice)]
       \/ \E n \in 1..3, t \in 1..3, a \in 1..8 :
               applied = [op |-> "validate", done |-> FALSE,
                          data |-> AmountData(<<n, t, a>>)]
       \/ \E choice \in [DOMAIN ContactValues -> 1..3] :
               applied = [op |-> "validate", done |-> FALSE,
                          data |-> Chosen(ContactValues, choice)]
       \/ \E choice \in [DOMAIN LengthValues -> 1..5] :
               applied = [op |-> "validate", done |-> FALSE,
                          data |-> Chosen(LengthValues, choice)]
       \/ \E i \in 1..Len(DateTexts) :
               applied = [op |-> "date", done |-> FALSE, text |-> DateTexts[i]]
       \/ \E inputs \in [1..MaxCalls -> 1..Len(CallInputs)] :
               applied = [op |-> "calls", done |-> FALSE, inputs |-> inputs, k |-> 0,
                          validator |-> NewValidator, returned |-> <<>>]

NextFunctions ==
    ApplyAmount \/ ApplyNormalize \/ ApplyValidate \/ ApplyDate \/ ApplyCall

FunctionsSpec == InitFunctions /\ [][NextFunctions]_vars

------------------------------------------------------------------------------
(* The request handlers alone.  A handler that has been called runs to its   *)
(* end (the event loop and the thread pool schedule it), and CPython         *)
(* finalises an instance as soon as its last reference is dropped.           *)

HandlerStep(h) ==
    \/ \E o \in {"ok", "minio_raises", "session_raises"} : Construct(h, o)
    \/ \E o \in {"ok", "raise"} : Operate(h, o)
    \/ Respond(h)
    \/ Del(h)

NextSessions ==
    \/ \E h \in Handlers, op \in {"status", "cleaned", "reprocess", "extract"},
          named \in BOOLEAN : Request(h, op, named)
    \/ \E h \in Handlers, o \in {"ok", "minio_raises", "session_raises"} : Construct(h, o)
    \/ \E h \in Handlers, o \in {"ok", "raise"} : Operate(h, o)
    \/ \E h \in Handlers : Respond(h)
    \/ \E h \in Handlers : Del(h)

SessionsSpec ==
    Init /\ [][NextSessions]_vars /\ \A h \in Handlers : WF_vars(HandlerStep(h))

------------------------------------------------------------------------------
(* Properties                                                               *)

Attempted(stage) == \E i \in 1..Len(trace) : trace[i] = stage

Recorded(stage) == stage \in DOMAIN result.stages

MarkedFailed(stage) == Recorded(stage) /\ result.stages[stage].status = "failed"

Reported(exc) == \E i \in 1..Len(result.errors) : result.errors[i] = exc

HasCleanedArtifact(id) ==
    ObjectName(id, "cleaned.json") \in DOMAIN store["cleaned_invoices"]

\* a step of reprocess_invoice
ReprocessStep == pc = "idle" /\ pc' = "idle" /\ ret'.op = "reprocess"

\* C1: whatever is raised inside process_invoice_pipeline, the call returns
\* a result with final_status "failed" whose errors hold the exception's
\* message.
C1_ExceptionGivesFailedResult ==
    (pc = "done" /\ thrown.t # "none")
        => (result.final_status = "failed" /\ Reported(thrown))

\* a run in which the database save raised has returned
C1_Witness ==
    pc = "done" /\ thrown = Exc("database error") /\ Recorded("cleaned_upload")

\* C2: a stage recorded as "failed" sets final_status "failed" at once and
\* ends the run.
C2_FailedStageEndsRun ==
    (\E stage \in DOMAIN result.stages : MarkedFailed(stage))
        => (pc = "done" /\ result.final_status = "failed")

\* C3: an LLM answer that is not JSON ends the run with final_status
\* "failed", llm_extraction marked failed, and no validation, cleaned
\* artifact or database save.
C3_NonJsonAnswerFails ==
    (pc = "done" /\ loc.response.t = "str")
        => /\ result.final_status = "failed"
           /\ MarkedFailed("llm_extraction")
           /\ ~Attempted("data_validation")
           /\ ~Attempted("cleaned_upload")
           /\ ~Attempted("database_save")

\* C4: a run whose stages all completed ends "success_with_warnings" when
\* validation produced a warning, and "success" when it produced none.
C4_WarningsShowInFinalStatus ==
    (pc = "done" /\ Recorded("database_save"))
        => result.final_status =
              (IF result.warnings = <<>> THEN "success" ELSE "success_with_warnings")

\* C5: when OCR yields no text, or the LLM provider yields no response, the
\* stage is recorded as failed, an error is reported and no later stage runs.
C5_UpstreamFailureRecorded ==
    /\ (pc = "done" /\ loc.ocr_text = EmptyStr)
          => /\ MarkedFailed("ocr_extraction")
             /\ result.errors # <<>>
             /\ ~Attempted("llm_extraction")
    /\ (pc = "done" /\ loc.response.t = "none")
          => /\ MarkedFailed("llm_extraction")
             /\ result.errors # <<>>
             /\ ~Attempted("data_validation")

\* C6: reprocess_invoice for an invoice without a stored LLM artifact
\* returns the "No LLM output found" result without raising, calls neither
\* OCR nor LLM, runs no validation and writes nothing.
C6_ReprocessWithoutLlmArtifact ==
    [][(ReprocessStep
        /\ ObjectName(ret'.id, "llm.json") \notin DOMAIN store["llm_output"])
          => /\ ~ret'.raised
             /\ ret'.value = ErrorDict("No LLM output found for this invoice")
             /\ ~ret'.validated
             /\ store' = store
             /\ calls' = calls]_vars

\* reprocess_invoice has returned the not-found result
C6_Witness ==
    ret.op = "reprocess" /\ ~ret.raised /\ ~ret.validated

\* C7: reprocess_invoice for an invoice whose stored LLM artifact is a JSON
\* object returns status success and has stored a new cleaned artifact.
C7_ReprocessStoresCleaned ==
    (/\ ret.op = "reprocess"
     /\ JsonLoads(GetObject(store, "llm_output", ObjectName(ret.id, "llm.json"))).value.t
            = "dict")
        => (~ret.raised /\ HasCleanedArtifact(ret.id) /\ written[ret.id].n > 0)

\* C8: reprocess_invoice never calls the OCR or the LLM collaborator, and
\* reads no object but the LLM artifact of its invoice.
C8_ReprocessSkipsOcrAndLlm ==
    [][ReprocessStep
          => /\ calls' = calls
             /\ ret'.reads \subseteq {<<"llm_output", ObjectName(ret'.id, "llm.json")>>}]_vars

\* reprocess_invoice has run on a stored LLM artifact
C8_Witness ==
    ret.op = "reprocess" /\ ret.validated /\ calls.llm > 0

\* an object of the invoice: its name is invoice_{id}_...
BelongsTo(name, id) == StartsWith(name, NamePrefix(id) \o <<"_">>)

StageBucket(stage) ==
    CASE stage = "raw_upload"     -> "raw_invoices"
      [] stage = "ocr_extraction" -> "ocr_output"
      [] stage = "llm_extraction" -> "llm_output"
      [] stage = "cleaned_data"   -> "cleaned_invoices"

\* C9: get_pipeline_status reports a stage true exactly when the stage's
\* bucket holds an object of that invoice.
C9_StatusOfOwnArtifacts ==
    ret.op = "status"
        => \A stage \in DOMAIN ret.value :
              ret.value[stage]
                 <=> (\E name \in DOMAIN store[StageBucket(stage)] : BelongsTo(name, ret.id))

AnsweredObject == loc.response.t = "json" /\ loc.response.v.t = "dict"

\* no collaborator has failed since the run started
NoFaultInRun == faults = loc.faults0

\* C11: whatever the fields of an LLM answer that is a JSON object hold, a
\* run whose OCR, store and database work uploads the cleaned artifact,
\* saves to the database and has persisted a record.
C11_AnomaliesNeverBlockPersistence ==
    (pc = "done" /\ AnsweredObject /\ NoFaultInRun)
        => /\ Recorded("cleaned_upload")
           /\ Recorded("database_save")
           /\ loc.created = 1

\* C12: a run ends "success" or "success_with_warnings" exactly when it
\* created one database record, and a run that ends "failed" created none.
C12_RecordOnlyOnSuccess ==
    pc = "done"
        => /\ result.final_status \in {"success", "success_with_warnings"}
                <=> loc.created = 1
           /\ result.final_status = "failed" => loc.created = 0

\* C13: the /extract handler answers the client with the pipeline result of
\* the run, or with a structured error when no run took place.
C13_ExtractReturnsResult ==
    ret.op = "extract"
        => IF ret.ran THEN ret.value = ret.result
           ELSE ret.value.t = "dict" /\ "error" \in DOMAIN ret.value.v

IsMismatch(w) == w.m = "Amount calculation mismatch"

\* C19: for the answer with supplier.vat_number "gb123456789" and amounts
\* 100 + 20 = 120, a run without collaborator failure ends "success" with no
\* mismatch warning and the cleaned supplier_vat_number "GB123456789".
C19_VatNumberUpperCased ==
    (pc = "done" /\ loc.response = Responses[5] /\ NoFaultInRun)
        => /\ result.final_status = "success"
           /\ \A i \in 1..Len(result.warnings) : ~IsMismatch(result.warnings[i])
           /\ Get(result.cleaned_data, "supplier_vat_number", None)
                 = Str(<<"G", "B", "1", "2", "3", "4", "5", "6", "7", "8", "9">>)

\* the frames of the two runs
Frames == {frame, parked}

\* the run of frame f is about to have the OCR engine read its temp file,
\* and the file it wrote is there
ReadsOwnFile(f) == f[1] = "ocr" => TempPathOf(f[2]) \in tempFiles

\* every artifact the run of frame f stored is in the store as it stored it
KeepsArtifacts(f) ==
    \A b \in DOMAIN f[4].wrote :
        GetObject(store, b, StageObject(b, f[2].invoice_id, f[2].filename))
            = f[4].wrote[b]

\* the record the run of frame f committed is in the database as committed
KeepsRecord(f) ==
    f[4].created = 1
        => \E i \in 1..Len(db) :
              /\ db[i].original_ocr_text = f[4].ocr_text
              /\ \A k \in DOMAIN f[4].cleaned : db[i].fields[k] = f[4].cleaned[k]

\* no two runs have been started for the same invoice id
DifferentInvoices == \A id \in Ids : written[id].runs <= 1

C15_RunsOfSameInvoiceDoNotFail ==
    \A f \in Frames : ReadsOwnFile(f)

\* the number of mismatch warnings among the warnings w
Mismatches(w) == Cardinality({i \in 1..Len(w) : IsMismatch(w[i])})

\* C17: validation emits the mismatch warning once when the answer holds
\* total_net, total_tax and total_amount with |net + tax - total| > 0.02,
\* and not at all otherwise.
C17_MismatchWarningIffOverTolerance ==
    (applied.op = "validate" /\ applied.done)
        => LET net == Get(applied.data, "total_net", None)
               tax == Get(applied.data, "total_tax", None)
               total == Get(applied.data, "total_amount", None)
           IN  Mismatches(applied.warnings)
                 = (IF /\ net.t = "num" /\ tax.t = "num" /\ total.t = "num"
                       /\ Abs((net.v + tax.v) - total.v) > Tolerance
                    THEN 1 ELSE 0)

\* a value that is neither null nor the empty string
HasValue(x) == x.t # "none" /\ ~(x.t = "str" /\ Len(x.v) = 0)

\* the value of the first of the keys that has a value in data
FirstValue(data, keys, default) ==
    LET hits == {i \in 1..Len(keys) :
                    keys[i] \in DOMAIN data.v /\ HasValue(data.v[keys[i]])}
    IN  IF hits = {} THEN default
        ELSE data.v[keys[CHOOSE i \in hits : \A j \in hits : i <= j]]

\* C18: normalisation gives each field the value of the first of its aliases,
\* in the fixed order, that has a value; a later alias is not used when an
\* earlier one has a value.
C18_FirstAliasWins ==
    (applied.op = "normalize" /\ applied.done)
        => \A field \in DOMAIN Aliases :
              applied.normalized.v[field]
                = FirstValue(applied.data, Aliases[field],
                             IF field = "expense_date" THEN EmptyStr ELSE None)

\* C20: an amount text parses, in _validate_amount and in _parse_numeric, to
\* the value of the text without its currency symbol, commas and
\* whitespace, and to None when that text is no number.
C20_AmountParsingIgnoresDecoration ==
    (applied.op = "amount" /\ applied.done)
        => /\ applied.decimal = AmountCores[applied.core].value
           /\ applied.numeric = AmountCores[applied.core].value

\* an amount written with a euro sign, a comma and whitespace was parsed to
\* a number
C20_Witness ==
    /\ applied.op = "amount" /\ applied.done
    /\ applied.decimal = Num(123450)
    /\ \E i, j, k \in 1..Len(applied.text) :
          applied.text[i] = "€" /\ applied.text[j] = "," /\ applied.text[k] = " "

\* C16: an instance that was constructed holds exactly one open session, a
\* handler never holds more than one session of its own, and every session a
\* handler holds (its instance's, and the one /extract gets from get_db) is
\* eventually closed, whether construction or the operation raised or not.
C16_SessionsReleased ==
    /\ [](\A h \in Handlers :
            /\ handlers[h].opened <= 1
            /\ handlers[h].at = "operate"
                 => handlers[h].opened = 1 /\ handlers[h].db = "open")
    /\ \A h \in Handlers :
          /\ (handlers[h].db = "open") ~> (handlers[h].db = "closed")
          /\ (handlers[h].dep = "open") ~> (handlers[h].dep = "closed")

\* a reprocess handler whose operation raised has had its session closed,
\* while an /extract handler is still running with both its sessions open
C16_Witness ==
    \E h, g \in Handlers :
        /\ handlers[h].op = "reprocess" /\ handlers[h].raised
        /\ handlers[h].opened = 1 /\ handlers[h].db = "closed"
        /\ handlers[h].at = "idle"
        /\ handlers[g].op = "extract" /\ handlers[g].at = "operate"
        /\ handlers[g].db = "open" /\ handlers[g].dep = "open"

StageOrder ==
    <<"raw_upload", "ocr_extraction", "llm_extraction", "data_validation",
      "cleaned_upload", "database_save">>

\* the position of a stage in the order of the stages
StageIndex(stage) == CHOOSE i \in 1..Len(StageOrder) : StageOrder[i] = stage

\* C21: the stage entries of a run always form a prefix of the stage order,
\* the stages are executed in that order and none twice, and a run that
\* returns has final_status success, success_with_warnings or failed.
C21_StagesOrderedForwardOnly ==
    /\ \E n \in 0..Len(StageOrder) :
          DOMAIN result.stages = {StageOrder[i] : i \in 1..n}
    /\ \A i, j \in 1..Len(trace) :
          i < j => StageIndex(trace[i]) < StageIndex(trace[j])
    /\ pc = "done"
          => result.final_status \in {"success", "success_with_warnings", "failed"}

\* a run has failed in its third stage, with the entries of the first two
C21_Witness ==
    /\ pc = "done" /\ result.final_status = "failed"
    /\ DOMAIN result.stages = {"raw_upload", "ocr_extraction"}
    /\ trace = <<"raw_upload", "ocr_extraction", "llm_extraction">>

\* C22: whatever calls were made on a validator instance, the cleaned data
\* and the two lists each call returned are what validate_invoice gives for
\* that call's argument alone, and they stay so through all later calls.
C22_NoCrossCallLeakage ==
    applied.op = "calls"
        => \A i \in 1..Len(applied.returned) :
              LET r == applied.returned[i]
                  out == ValidateInvoice(r.data)
              IN  /\ r.cleaned = out.cleaned
                  /\ applied.validator.heap[r.errors] = out.errors
                  /\ applied.validator.heap[r.warnings] = out.warnings

\* three calls were made: one returned warnings, the next raised, and the
\* last returned no warning
C22_Witness ==
    /\ applied.op = "calls" /\ applied.done
    /\ applied.inputs = <<1, 4, 2>>
    /\ Len(applied.returned) = 2
    /\ applied.validator.heap[applied.returned[1].warnings] # <<>>
    /\ applied.validator.heap[applied.returned[2].warnings] = <<>>

\* C23: every key of the cleaned data validate_invoice returns holds a value
\* its field's validator accepts: the email pattern, 7 to 15 phone digits,
\* a VAT format, the website pattern, a number for an amount, a parsed date.
C23_CleanedValuesPassValidators ==
    (applied.op = "validate" /\ applied.done)
        => \A k \in DOMAIN applied.cleaned :
              LET x == applied.cleaned[k]
              IN  CASE k = "supplier_email" -> ValidateEmail(x.v)
                    [] k = "supplier_phone_number" -> Truthy(ValidatePhone(x.v))
                    [] k = "supplier_vat_number" -> Truthy(ValidateVatNumber(x.v))
                    [] k = "supplier_website" -> Truthy(ValidateWebsite(x.v))
                    [] k \in {"total_net", "total_tax", "total_amount"} -> x.t = "num"
                    [] k = "expense_date" -> x.t = "dt"
                    [] OTHER -> TRUE

\* the formats of the validator's list that parse the text
Parsing(text) == {f \in 1..ValidatorFormats : Strptime(Strip(text), f).t = "dt"}

\* C24: a date text is parsed by the first format of the list that parses
\* it, so a slash date is read day/month unless that reading is invalid, a
\* text no format parses gives None, and the persistence layer's
\* _parse_date gives what the validator's gives.
C24_FirstDateFormatWins ==
    (applied.op = "date" /\ applied.done)
        => /\ applied.validator =
                 (IF Parsing(applied.text) = {} THEN None
                  ELSE Strptime(Strip(applied.text),
                                CHOOSE f \in Parsing(applied.text) :
                                    \A g \in Parsing(applied.text) : f <= g))
           /\ applied.text = <<"0", "5", "/", "0", "1", "/", "2", "0", "2", "4">>
                 => applied.validator = Date(2024, 1, 5)
           /\ applied.text = <<"0", "1", "/", "1", "3", "/", "2", "0", "2", "4">>
                 => applied.validator = Date(2024, 1, 13)
           /\ applied.service = applied.validator

\* the fields that have a length limit, each with its limit and its warning
Limited ==
    [k \in {"supplier_name", "currency", "invoice_number"} |->
        CASE k = "supplier_name" ->
                [limit |-> MaxNameLen, w |-> "Supplier name truncated to 255 characters"]
          [] k = "currency" ->
                [limit |-> MaxCurrencyLen, w |-> "Currency code truncated"]
          [] k = "invoice_number" ->
                [limit |-> MaxInvoiceNumberLen, w |-> "Invoice number truncated"]]

\* the cleaned text of a field of the answer (in capitals for the currency),
\* <<>> when there is none
CleanedInput(data, k) ==
    LET c == CleanString(Get(data, k, None))
    IN  IF c.t # "str" THEN <<>> ELSE IF k = "currency" THEN Upper(c.v) ELSE c.v

\* C25: the cleaned supplier_name, currency and invoice_number are the first
\* 255, 10 and 100 characters of the cleaned input (the currency in
\* capitals), and the truncation warning of a field is there exactly when
\* the cleaned input was longer than the limit.
C25_LengthLimits ==
    (applied.op = "validate" /\ applied.done)
        => \A k \in DOMAIN Limited :
              LET input == CleanedInput(applied.data, k)
              IN  /\ k \in DOMAIN applied.cleaned
                       => /\ Len(applied.cleaned[k].v) <= Limited[k].limit
                          /\ applied.cleaned[k].v
                                = SubSeq(input, 1, Len(applied.cleaned[k].v))
                          /\ Len(applied.cleaned[k].v) = Limited[k].limit
                                \/ applied.cleaned[k].v = input
                  /\ (\E i \in 1..Len(applied.warnings) :
                          applied.warnings[i].m = Limited[k].w)
                       <=> Len(input) > Limited[k].limit

\* a supplier name of 256 characters was cut to 255 with its warning, next
\* to a currency of exactly 10 characters that was kept whole
C25_Witness ==
    /\ applied.op = "validate" /\ applied.done
    /\ Len(CleanedInput(applied.data, "supplier_name")) = MaxNameLen + 1
    /\ Len(applied.cleaned["supplier_name"].v) = MaxNameLen
    /\ \E i \in 1..Len(applied.warnings) :
          applied.warnings[i].m = Limited["supplier_name"].w
    /\ Len(CleanedInput(applied.data, "currency")) = MaxCurrencyLen
    /\ "currency" \in DOMAIN applied.cleaned
    /\ applied.cleaned["currency"].v = [i \in 1..MaxCurrencyLen |-> "E"]

\* the stages get_pipeline_status reports, in stage order
StatusStages == <<"raw_upload", "ocr_extraction", "llm_extraction", "cleaned_data">>

\* the bucket of the stage holds an artifact of the invoice
HasArtifact(stage, id) ==
    \E name \in DOMAIN store[StageBucket(stage)] : BelongsTo(name, id)

\* C26: whatever runs and reprocessings took place, an invoice has the
\* artifact of a stage only if it has the artifacts of all earlier stages,
\* and get_pipeline_status never reports a stage true after a false one.
C26_ArtifactsDownwardClosed ==
    /\ \A id \in Ids : \A i, j \in 1..Len(StatusStages) :
          (i < j /\ HasArtifact(StatusStages[j], id)) => HasArtifact(StatusStages[i], id)
    /\ ret.op = "status"
          => \A i, j \in 1..Len(StatusStages) :
                (i < j /\ ret.value[StatusStages[j]]) => ret.value[StatusStages[i]]

\* C27: when process_invoice_pipeline returns, whatever the outcome of the
\* run, no file exists at the temp path of its invoice.
C27_TempFileGoneAtReturn ==
    pc = "done" => TempPath \notin tempFiles

\* the validation_results of the cleaned artifacts in the store
StoredValidationResults ==
    {JsonLoads(store["cleaned_invoices"][name]).value.v["validation_results"].v :
        name \in DOMAIN store["cleaned_invoices"]}

\* C28: validate_invoice returns no error, so a data_validation entry is
\* never "failed" and counts no error, and every cleaned artifact has
\* is_valid true and an empty error list.
C28_ValidationNeverFails ==
    /\ loc.errors = <<>>
    /\ Recorded("data_validation")
          => /\ result.stages["data_validation"].status = "success"
             /\ result.stages["data_validation"].errors_count = 0
    /\ \A r \in StoredValidationResults :
          r["is_valid"] = Bool(TRUE) /\ r["errors"] = List(<<>>)

\* a run has stored a cleaned artifact whose validation produced a warning
C28_Witness ==
    /\ pc = "done" /\ Recorded("data_validation")
    /\ result.stages["data_validation"].warnings_count > 0
    /\ \E r \in StoredValidationResults : r["warnings"] # List(<<>>)

\* C29: an amount that the answer gives as the number 0 under its primary
\* key is in the cleaned data as 0.
C29_ZeroAmountKept ==
    (applied.op = "validate" /\ applied.done)
        => \A i \in 1..Len(AmountFields) :
              Get(applied.data, AmountFields[i], None) = Num(0)
                 => /\ AmountFields[i] \in DOMAIN applied.cleaned
                    /\ applied.cleaned[AmountFields[i]] = Num(0)

\* C30: a reprocess_invoice step leaves every raw, OCR and LLM artifact, the
\* cleaned artifacts of the other invoices and all rows of the database as
\* they were.
C30_ReprocessFrame ==
    [][ReprocessStep
          => /\ \A b \in Buckets \ {"cleaned_invoices"} : store'[b] = store[b]
             /\ \A name \in (DOMAIN store["cleaned_invoices"]
                               \cup DOMAIN store'["cleaned_invoices"])
                             \ {ObjectName(ret'.id, "cleaned.json")} :
                   /\ name \in DOMAIN store["cleaned_invoices"]
                   /\ name \in DOMAIN store'["cleaned_invoices"]
                   /\ store'["cleaned_invoices"][name] = store["cleaned_invoices"][name]
             /\ db' = db]_vars

\* reprocess_invoice has run on the LLM artifact of an invoice while the
\* database holds a record and another invoice has a cleaned artifact
C30_Witness ==
    /\ ret.op = "reprocess" /\ ret.validated
    /\ Len(db) > 0
    /\ \E id \in Ids \ {ret.id} : HasCleanedArtifact(id)

====
